---- MODULE Spec2Model ----
(***************************************************************************)
(* Model of 01-python-agent-framework.py: three tool functions             *)
(* (get_random_destination, get_weather, get_datetime), the agent built    *)
(* from them, and the driver main() that awaits one agent.run and prints   *)
(* the text of the last message's first content block.                     *)
(*                                                                         *)
(* Python strings are TLA+ strings; the two non-ASCII texts of the source  *)
(* (the degree sign, the beach emoji) are written with Python's escapes.   *)
(* The result of get_datetime is a sequence of one-character strings, so   *)
(* that its shape can be read position by position.                        *)
(***************************************************************************)
EXTENDS Integers, Sequences, FiniteSets

(***************************************************************************)
(* Bounds of the model.                                                    *)
(***************************************************************************)
\* tool invocations the agent makes during one run
MaxCalls == 2
\* messages in the response of agent.run
MaxMsgs == 2
\* content blocks in one message
MaxContents == 2

(***************************************************************************)
(* The state.                                                              *)
(***************************************************************************)
VARIABLES
    pc,          \* the driver's position in main()
    runCalls,    \* how many times agent.run was invoked
    runPrompt,   \* the prompts agent.run was invoked with
    calls,       \* the tool invocations of the run
    rngPos,      \* draws taken from the generator behind randint and uniform
    runOutcome,  \* "none", "returned" or "raised"
    response,    \* response.messages once run has returned
    last_message,
    text_content,
    reads,       \* the places of the response the driver has read
    stdout,
    exc,         \* the exception in flight or that ended the process
    exitCode

vars == << pc, runCalls, runPrompt, calls, rngPos, runOutcome, response,
           last_message, text_content, reads, stdout, exc, exitCode >>

driverVars == << pc, runCalls, runPrompt, runOutcome, response, last_message,
                 text_content, reads, stdout, exc, exitCode >>

(***************************************************************************)
(* Python helpers.                                                         *)
(***************************************************************************)
\* random.randint(a, b): an integer N with a <= N <= b, both ends included
randint(a, b) == a .. b

\* seq[i] of a Python list: 0-based, a negative index counts from the end,
\* anything else raises IndexError
PyIndexOk(seq, i) == -Len(seq) <= i /\ i < Len(seq)

PyIndex(seq, i) == IF i >= 0 THEN seq[i + 1] ELSE seq[Len(seq) + i + 1]

\* print(s): the text and a newline
PrintLine(out, s) == out \o s \o "\n"

(***************************************************************************)
(* get_random_destination                                                  *)
(***************************************************************************)
destinations ==
    << "Garmisch-Partenkirchen, Germany",
       "Munich, Germany",
       "Barcelona, Spain",
       "Paris, France",
       "Berlin, Germany",
       "Tokyo, Japan",
       "Sydney, Australia",
       "New York, USA",
       "Cairo, Egypt",
       "Cape Town, South Africa",
       "Rio de Janeiro, Brazil",
       "Bali, Indonesia" >>

\* the mutant draws one past the end of the list
DestinationDrawsOffByOne == randint(0, Len(destinations))

\* randint(0, len(destinations) - 1)
DestinationDraws == randint(0, Len(destinations) - 1)

\* destinations[draw]: the outcome of the call for one value of the draw
get_random_destination(draw) ==
    IF PyIndexOk(destinations, draw)
    THEN [kind |-> "return", value |-> PyIndex(destinations, draw)]
    ELSE [kind |-> "raise", value |-> "IndexError"]

(***************************************************************************)
(* get_weather                                                             *)
(***************************************************************************)
WeatherUnavailable == "Weather service is currently unavailable. Please try again later."

\* randint(1, 10)
WeatherDraws == randint(1, 10)

\* the mutant fails from 7 on
WeatherFailsFromSeven(draw) == draw >= 7

\* the mutant decides the failure from the generator's position, which all
\* invocations share, not from the invocation's own draw
WeatherFailsOnSharedCount(draw) == rngPos % 4 >= 2

\* if randint(1, 10) > 7: raise
WeatherFails(draw) == draw > 7

\* f"The weather in {location} is cloudy with a high of 15<degree sign>C."
WeatherText(location) ==
    "The weather in " \o location \o " is cloudy with a high of 15\\u00b0C."

\* the mutant recovers inside the tool: a fallback text, no exception
get_weather_with_fallback(location, draw) ==
    IF WeatherFails(draw)
    THEN [kind |-> "return", value |-> "The weather is unknown."]
    ELSE [kind |-> "return", value |-> WeatherText(location)]

get_weather(location, draw) ==
    IF WeatherFails(draw)
    THEN [kind |-> "raise", value |-> WeatherUnavailable]
    ELSE [kind |-> "return", value |-> WeatherText(location)]

(***************************************************************************)
(* get_datetime                                                            *)
(***************************************************************************)
DigitChars == << "0", "1", "2", "3", "4", "5", "6", "7", "8", "9" >>

Digit(d) == DigitChars[d + 1]

\* "%0<w>d" of a natural number: at least w digits, zero-padded
RECURSIVE Digits(_)
Digits(n) == IF n < 10 THEN << Digit(n) >> ELSE Append(Digits(n \div 10), Digit(n % 10))

RECURSIVE ZeroPad(_, _)
ZeroPad(s, w) == IF Len(s) >= w THEN s ELSE ZeroPad(<< "0" >> \o s, w)

Fmt(n, w) == ZeroPad(Digits(n), w)

\* readings of the local clock, datetime.now(): a naive datetime (tzinfo is
\* None), year in MINYEAR..MAXYEAR = 1..9999
ClockSamples ==
    { [year |-> 1,    month |-> 1,  day |-> 1,  hour |-> 0,  minute |-> 0,  second |-> 0,  microsecond |-> 0],
      [year |-> 2026, month |-> 11, day |-> 6,  hour |-> 9,  minute |-> 5,  second |-> 3,  microsecond |-> 120],
      [year |-> 987,  month |-> 2,  day |-> 28, hour |-> 12, minute |-> 30, second |-> 59, microsecond |-> 500000],
      [year |-> 9999, month |-> 12, day |-> 31, hour |-> 23, minute |-> 59, second |-> 59, microsecond |-> 999999] }

\* the mutant is isoformat's default timespec='auto': the microseconds are
\* written, as .ffffff, when they are not zero
IsoFormatAuto(t) ==
    Fmt(t.year, 4) \o << "-" >> \o Fmt(t.month, 2) \o << "-" >> \o Fmt(t.day, 2)
        \o << " " >>
        \o Fmt(t.hour, 2) \o << ":" >> \o Fmt(t.minute, 2) \o << ":" >> \o Fmt(t.second, 2)
        \o (IF t.microsecond = 0 THEN << >> ELSE << "." >> \o Fmt(t.microsecond, 6))

\* datetime.isoformat(sep=' ', timespec='seconds') of a naive datetime:
\* "%04d-%02d-%02d" sep "%02d:%02d:%02d", no fraction and no UTC offset
IsoFormat(t) ==
    Fmt(t.year, 4) \o << "-" >> \o Fmt(t.month, 2) \o << "-" >> \o Fmt(t.day, 2)
        \o << " " >>
        \o Fmt(t.hour, 2) \o << ":" >> \o Fmt(t.minute, 2) \o << ":" >> \o Fmt(t.second, 2)

get_datetime(now) == [kind |-> "return", value |-> IsoFormat(now)]

(***************************************************************************)
(* The agent and the driver.                                               *)
(***************************************************************************)
\* userPrompt of main()
userPrompt == "Plan me a day trip with activities and calculate the current weather at the destination. Mention the current date and time of the plan."

\* ChatAgent(..., tools=[get_random_destination, get_weather, get_datetime])
agentTools == << "get_random_destination", "get_weather", "get_datetime" >>

\* the text of the first print of main(): the beach emoji, a space and
\* "Travel plan:"
TravelPlanHeader == "\\U0001F3D6\\uFE0F Travel plan:"

\* arguments the model may pass to get_weather: any string, unvalidated
Locations == { "", "Atlantis {x}" }

\* texts of the content blocks of a response
Texts == { "Day trip to Paris", "It is cloudy" }

SeqsUpTo(S, n) == UNION { [1 .. k -> S] : k \in 0 .. n }

\* response.messages: a list of messages, each a list of content blocks
Responses == SeqsUpTo(SeqsUpTo(Texts, MaxContents), MaxMsgs)

NoOutcome == [kind |-> "none", value |-> ""]

NoCall == [st |-> "idle", tool |-> "", arg |-> "", draw |-> -1, outcome |-> NoOutcome]

Init ==
    /\ pc = "main"
    /\ runCalls = 0
    /\ runPrompt = << >>
    /\ calls = [i \in 1 .. MaxCalls |-> NoCall]
    /\ rngPos = 0
    /\ runOutcome = "none"
    /\ response = << >>
    /\ last_message = << >>
    /\ text_content = ""
    /\ reads = { }
    /\ stdout = ""
    /\ exc = "none"
    /\ exitCode = -1

(***************************************************************************)
(* main(), line 118: response = await agent.run(userPrompt)                *)
(***************************************************************************)
\* the mutant runs the agent again after a failed run
RunAllowedWithRetry == pc \in { "main", "raising" }

\* straight-line code: the call is made once, on the way in
RunAllowed == pc = "main"

CallRun ==
    /\ RunAllowed
    /\ pc' = "await"
    /\ runCalls' = runCalls + 1
    /\ runPrompt' = Append(runPrompt, userPrompt)
    /\ runOutcome' = "none"
    /\ exc' = "none"
    /\ UNCHANGED << calls, rngPos, response, last_message, text_content, reads,
                    stdout, exitCode >>

(***************************************************************************)
(* The agent's loop, while main() is suspended in agent.run.  The agent is *)
(* the framework's: it may invoke any of its tools, any number at a time,  *)
(* and what it does with a tool's exception is its own choice.             *)
(***************************************************************************)
Running(i) == calls[i].st \in { "called", "slept" }

Finished(i) == calls[i].st \in { "returned", "raised" }

Settled(i) == calls[i].st \in { "idle", "collected", "handled" }

ToolArgs(tool) == IF tool = "get_weather" THEN Locations ELSE { "" }

\* the agent calls one of its tools
AgentInvokeTool(i) ==
    /\ pc = "await"
    /\ calls[i].st = "idle"
    /\ \A j \in 1 .. i - 1 : calls[j].st # "idle"
    /\ \E k \in 1 .. Len(agentTools) : \E a \in ToolArgs(agentTools[k]) :
          calls' = [calls EXCEPT ![i] = [NoCall EXCEPT !.st = "called",
                                                       !.tool = agentTools[k],
                                                       !.arg = a]]
    /\ UNCHANGED << rngPos, driverVars >>

\* delay_seconds = uniform(a, b); time.sleep(delay_seconds)
ToolSleep(i) ==
    /\ calls[i].st = "called"
    /\ calls' = [calls EXCEPT ![i].st = "slept"]
    /\ rngPos' = rngPos + 1
    /\ UNCHANGED driverVars

FinishedCall(c, d, o) ==
    [c EXCEPT !.st = IF o.kind = "raise" THEN "raised" ELSE "returned",
              !.draw = d,
              !.outcome = o]

\* the rest of the tool's body, after the sleep
ToolBody(i) ==
    /\ calls[i].st = "slept"
    /\ \/ /\ calls[i].tool = "get_random_destination"
          /\ \E d \in DestinationDraws :
                calls' = [calls EXCEPT ![i] = FinishedCall(@, d, get_random_destination(d))]
          /\ rngPos' = rngPos + 1
       \/ /\ calls[i].tool = "get_weather"
          /\ \E d \in WeatherDraws :
                calls' = [calls EXCEPT ![i] = FinishedCall(@, d, get_weather(calls[i].arg, d))]
          /\ rngPos' = rngPos + 1
       \/ /\ calls[i].tool = "get_datetime"
          /\ \E now \in ClockSamples :
                calls' = [calls EXCEPT ![i] = FinishedCall(@, now, get_datetime(now))]
          /\ rngPos' = rngPos
    /\ UNCHANGED driverVars

\* the agent takes a tool's result, or reports the tool's error to the
\* model, and goes on; the result goes into the conversation, which is the
\* agent's own
AgentCollect(i) ==
    /\ pc = "await"
    /\ Finished(i)
    /\ calls' = [calls EXCEPT ![i] =
                   IF calls[i].st = "raised"
                   THEN [NoCall EXCEPT !.st = "handled", !.tool = calls[i].tool]
                   ELSE [NoCall EXCEPT !.st = "collected"]]
    /\ UNCHANGED << rngPos, driverVars >>

\* the agent lets a tool's exception out of run
AgentPropagate(i) ==
    /\ pc = "await"
    /\ calls[i].st = "raised"
    /\ \A j \in 1 .. MaxCalls : ~Running(j)
    /\ pc' = "raising"
    /\ runOutcome' = "raised"
    /\ exc' = calls[i].outcome.value
    /\ UNCHANGED << runCalls, runPrompt, calls, rngPos, response, last_message,
                    text_content, reads, stdout, exitCode >>

\* the chat client fails (configuration, network): run raises
AgentClientError ==
    /\ pc = "await"
    /\ \A j \in 1 .. MaxCalls : ~Running(j)
    /\ pc' = "raising"
    /\ runOutcome' = "raised"
    /\ exc' = "ClientError"
    /\ UNCHANGED << runCalls, runPrompt, calls, rngPos, response, last_message,
                    text_content, reads, stdout, exitCode >>

\* run returns its response
AgentReturn ==
    /\ pc = "await"
    /\ \A j \in 1 .. MaxCalls : Settled(j)
    /\ \E r \in Responses : response' = r
    /\ pc' = "line122"
    /\ runOutcome' = "returned"
    /\ UNCHANGED << runCalls, runPrompt, calls, rngPos, last_message,
                    text_content, reads, stdout, exc, exitCode >>

(***************************************************************************)
(* main(), lines 122-127, and the end of the process.                      *)
(***************************************************************************)
\* the place of seq[i] counted from the start, from 0
PyPos(seq, i) == IF i >= 0 THEN i ELSE Len(seq) + i

\* the mutant reads messages[0]
FirstMessageIndex == 1 - 1

\* response.messages[-1]
LastMessageIndex == -1

\* last_message.contents[0]
FirstContentIndex == 0

\* last_message = response.messages[-1]
GetLastMessage ==
    /\ pc = "line122"
    /\ IF PyIndexOk(response, LastMessageIndex)
       THEN /\ last_message' = PyIndex(response, LastMessageIndex)
            /\ reads' = reads \cup { << PyPos(response, LastMessageIndex) >> }
            /\ pc' = "line124"
            /\ exc' = exc
       ELSE /\ exc' = "IndexError"
            /\ pc' = "raising"
            /\ UNCHANGED << last_message, reads >>
    /\ UNCHANGED << runCalls, runPrompt, calls, rngPos, runOutcome, response,
                    text_content, stdout, exitCode >>

\* the mutant guards the access: an empty content list gives an empty text
GetTextContentGuarded ==
    /\ pc = "line124"
    /\ IF PyIndexOk(last_message, FirstContentIndex)
       THEN /\ text_content' = PyIndex(last_message, FirstContentIndex)
            /\ reads' = reads \cup { << PyPos(response, LastMessageIndex),
                                        PyPos(last_message, FirstContentIndex) >> }
       ELSE UNCHANGED << text_content, reads >>
    /\ pc' = "line126"
    /\ UNCHANGED << runCalls, runPrompt, calls, rngPos, runOutcome, response,
                    last_message, stdout, exc, exitCode >>

\* text_content = last_message.contents[0].text
GetTextContent ==
    /\ pc = "line124"
    /\ IF PyIndexOk(last_message, FirstContentIndex)
       THEN /\ text_content' = PyIndex(last_message, FirstContentIndex)
            /\ reads' = reads \cup { << PyPos(response, LastMessageIndex),
                                        PyPos(last_message, FirstContentIndex) >> }
            /\ pc' = "line126"
            /\ exc' = exc
       ELSE /\ exc' = "IndexError"
            /\ pc' = "raising"
            /\ UNCHANGED << text_content, reads >>
    /\ UNCHANGED << runCalls, runPrompt, calls, rngPos, runOutcome, response,
                    last_message, stdout, exitCode >>

\* the mutant prints the header before it reads the response
PrintHeaderBeforeExtraction ==
    /\ pc = "line122"
    /\ stdout = ""
    /\ stdout' = PrintLine(stdout, TravelPlanHeader)
    /\ UNCHANGED << pc, runCalls, runPrompt, calls, rngPos, runOutcome, response,
                    last_message, text_content, reads, exc, exitCode >>

\* print(<header>)
PrintHeader ==
    /\ pc = "line126"
    /\ stdout' = PrintLine(stdout, TravelPlanHeader)
    /\ pc' = "line127"
    /\ UNCHANGED << runCalls, runPrompt, calls, rngPos, runOutcome, response,
                    last_message, text_content, reads, exc, exitCode >>

\* print(text_content)
PrintText ==
    /\ pc = "line127"
    /\ stdout' = PrintLine(stdout, text_content)
    /\ pc' = "returned"
    /\ UNCHANGED << runCalls, runPrompt, calls, rngPos, runOutcome, response,
                    last_message, text_content, reads, exc, exitCode >>

\* the mutant ends the process with status 0 whatever happened
ExitStatusAlwaysZero(raised) == 0

\* asyncio.run(main()) at the end of the script: status 0 when main()
\* returned, and the interpreter's status 1, after the traceback, when an
\* exception left it
ExitStatus(raised) == IF raised THEN 1 ELSE 0

ExitNormally ==
    /\ pc = "returned"
    /\ pc' = "exited"
    /\ exitCode' = ExitStatus(FALSE)
    /\ UNCHANGED << runCalls, runPrompt, calls, rngPos, runOutcome, response,
                    last_message, text_content, reads, stdout, exc >>

\* nothing in main() or around it catches: the exception ends the process
ExitOnException ==
    /\ pc = "raising"
    /\ pc' = "exited"
    /\ exitCode' = ExitStatus(TRUE)
    /\ UNCHANGED << runCalls, runPrompt, calls, rngPos, runOutcome, response,
                    last_message, text_content, reads, stdout, exc >>

Next ==
    \/ CallRun
    \/ \E i \in 1 .. MaxCalls : AgentInvokeTool(i)
    \/ \E i \in 1 .. MaxCalls : ToolSleep(i)
    \/ \E i \in 1 .. MaxCalls : ToolBody(i)
    \/ \E i \in 1 .. MaxCalls : AgentCollect(i)
    \/ \E i \in 1 .. MaxCalls : AgentPropagate(i)
    \/ AgentClientError
    \/ AgentReturn
    \/ GetLastMessage
    \/ GetTextContent
    \/ PrintHeader
    \/ PrintText
    \/ ExitNormally
    \/ ExitOnException

Spec == Init /\ [][Next]_vars

(***************************************************************************)
(* Properties.                                                             *)
(***************************************************************************)
CallIds == 1 .. MaxCalls

\* the last message of the response has a first content block
WellFormed(r) == Len(r) > 0 /\ Len(r[Len(r)]) > 0

\* every value of the draw gives an entry of the 12-entry list
EveryDrawInList ==
    /\ Len(destinations) = 12
    /\ \A d \in DestinationDraws :
          /\ get_random_destination(d).kind = "return"
          /\ \E k \in 1 .. 12 : get_random_destination(d).value = destinations[k]

\* every entry of the list is the result for some value of the draw
EveryEntryDrawn ==
    \A k \in 1 .. 12 :
       \E d \in DestinationDraws : get_random_destination(d).value = destinations[k]

\* C1: whatever the index draw, get_random_destination returns an entry of
\* the 12-entry list (the index is never out of range, the call never
\* raises), and each of the 12 entries is returned for some draw.
C1_DestinationFromList ==
    /\ EveryDrawInList
    /\ EveryEntryDrawn
    /\ \A i \in CallIds :
          (calls[i].tool = "get_random_destination" /\ Finished(i)) =>
             /\ calls[i].st = "returned"
             /\ calls[i].draw \in 0 .. 11
             /\ calls[i].outcome.value = destinations[calls[i].draw + 1]

\* a call has returned the last entry of the list, one has returned the first
C1_Witness ==
    /\ \E i \in CallIds :
          /\ calls[i].tool = "get_random_destination"
          /\ calls[i].st = "returned"
          /\ calls[i].outcome.value = "Bali, Indonesia"
    /\ \E i \in CallIds :
          /\ calls[i].tool = "get_random_destination"
          /\ calls[i].st = "returned"
          /\ calls[i].outcome.value = "Garmisch-Partenkirchen, Germany"

\* of the draws 1..10, three make get_weather raise
ThreeDrawsOfTenFail ==
    /\ WeatherDraws = 1 .. 10
    /\ Cardinality({ d \in WeatherDraws : WeatherFails(d) }) = 3

\* C2: for every location and every draw in 1..10, get_weather raises the
\* 'unavailable' error exactly when the draw is above 7 (3 draws of the 10),
\* and otherwise returns 'The weather in ' + location + ' is cloudy with a
\* high of 15<degree sign>C.', the location echoed as it came.
C2_WeatherOutcome ==
    /\ ThreeDrawsOfTenFail
    /\ \A i \in CallIds :
          (calls[i].tool = "get_weather" /\ Finished(i)) =>
             /\ calls[i].draw \in 1 .. 10
             /\ (calls[i].st = "raised") <=> (calls[i].draw > 7)
             /\ calls[i].st = "raised" =>
                   calls[i].outcome =
                      [kind |-> "raise",
                       value |-> "Weather service is currently unavailable. Please try again later."]
             /\ calls[i].st = "returned" =>
                   calls[i].outcome =
                      [kind |-> "return",
                       value |-> "The weather in " \o calls[i].arg
                                    \o " is cloudy with a high of 15\\u00b0C."]

\* one call raised on a draw of 8 while another returned, on a draw of 7,
\* the text for a location that is no destination
C2_Witness ==
    \E i, j \in CallIds :
       /\ calls[i].tool = "get_weather" /\ calls[i].st = "raised" /\ calls[i].draw = 8
       /\ calls[j].tool = "get_weather" /\ calls[j].st = "returned" /\ calls[j].draw = 7
       /\ calls[j].arg = "Atlantis {x}"

DigitSet == { "0", "1", "2", "3", "4", "5", "6", "7", "8", "9" }

\* YYYY-MM-DD HH:MM:SS
DateTimeShape(s) ==
    /\ Len(s) = 19
    /\ \A k \in 1 .. 19 :
          IF k \in { 5, 8 } THEN s[k] = "-"
          ELSE IF k = 11 THEN s[k] = " "
          ELSE IF k \in { 14, 17 } THEN s[k] = ":"
          ELSE s[k] \in DigitSet

\* C3: for every reading of the local clock get_datetime returns (it never
\* raises) a text of the form YYYY-MM-DD HH:MM:SS: 19 characters,
\* zero-padded fields, one space between date and time, no fraction of a
\* second and no timezone marker.
C3_DateTimeFormat ==
    \A i \in CallIds :
       (calls[i].tool = "get_datetime" /\ Finished(i)) =>
          /\ calls[i].st = "returned"
          /\ calls[i].outcome.kind = "return"
          /\ DateTimeShape(calls[i].outcome.value)

\* a call has returned for a clock whose year has three digits and whose
\* microseconds are not zero
C3_Witness ==
    \E i \in CallIds :
       /\ calls[i].tool = "get_datetime"
       /\ calls[i].st = "returned"
       /\ calls[i].draw.year = 987
       /\ calls[i].draw.microsecond # 0

C5_RunOnce ==
    /\ runCalls <= 1
    /\ (pc = "main") <=> (runCalls = 0)
    /\ runPrompt = IF runCalls = 0 THEN << >> ELSE << userPrompt >>
    /\ (\E i \in CallIds : Running(i)) => pc = "await"

\* the process has ended after a run that raised
C5_Witness == pc = "exited" /\ runOutcome = "raised" /\ runCalls = 1

\* C6: the process ends with status 0 when run returned a well-formed
\* response, and with a non-zero status when run raised: the exception is
\* not caught, the run is not repeated and nothing is printed.
C6_ExitCode ==
    /\ (pc = "exited" /\ runOutcome = "returned" /\ WellFormed(response)) =>
          exitCode = 0
    /\ runOutcome = "raised" =>
          /\ pc \in { "raising", "exited" }
          /\ exc # "none"
          /\ stdout = ""
          /\ runCalls = 1
          /\ pc = "exited" => exitCode # 0
    /\ pc # "exited" => exitCode = -1

\* the process has ended after the client failed
C6_Witness ==
    pc = "exited" /\ runOutcome = "raised" /\ exc = "ClientError" /\ exitCode = 1

Malformed(r) == Len(r) = 0 \/ Len(r[Len(r)]) = 0

\* C7: when run returns a response with no message, or whose last message
\* has no content block, the driver fails with the out-of-range error and
\* the process ends non-zero; it does not complete with nothing printed.
C7_EmptyResponseFails ==
    (runOutcome = "returned" /\ Malformed(response)) =>
       /\ pc \in { "line122", "line124", "raising", "exited" }
       /\ stdout = ""
       /\ pc \in { "raising", "exited" } => exc = "IndexError"
       /\ pc = "exited" => exitCode # 0

\* the process has ended on a response whose last message is empty, after a
\* message that has content
C7_Witness ==
    /\ pc = "exited"
    /\ runOutcome = "returned"
    /\ Len(response) = 2
    /\ Len(response[1]) > 0
    /\ Len(response[2]) = 0

WeatherRaised ==
    \E i \in CallIds : calls[i].tool = "get_weather" /\ calls[i].st \in { "raised", "handled" }

\* C8 as stated: a run in which get_weather raised never ends with a printed
\* travel plan.
C8_Original == WeatherRaised => ~(pc = "exited" /\ exitCode = 0 /\ stdout # "")

\* C8, amended: first-party code neither handles nor retries the error of
\* get_weather.  The tool hands it to its caller whenever the draw is above
\* 7, and when agent.run lets it out the driver ends non-zero with nothing
\* printed and no second run.
C8_ToolErrorNotHandledLocally ==
    /\ \A i \in CallIds :
          (calls[i].tool = "get_weather" /\ Finished(i) /\ calls[i].draw > 7) =>
             /\ calls[i].st = "raised"
             /\ calls[i].outcome.kind = "raise"
    /\ exc = "Weather service is currently unavailable. Please try again later." =>
          /\ WeatherRaised
          /\ runOutcome = "raised"
          /\ pc \in { "raising", "exited" }
          /\ stdout = ""
          /\ runCalls = 1
          /\ pc = "exited" => exitCode = 1

\* the process has ended on the weather error
C8_Witness ==
    /\ pc = "exited"
    /\ exc = "Weather service is currently unavailable. Please try again later."
    /\ exitCode = 1

\* the invocations that have drawn from the generator
HasDrawn(i) == calls[i].st \notin { "idle", "called" }

\* C9 as stated: no invocation writes state that another invocation writes.
C9_Original ==
    [][\A i \in CallIds :
          (Running(i) /\ calls'[i].st # calls[i].st /\ \E j \in CallIds \ { i } : HasDrawn(j))
             => rngPos' = rngPos]_vars

\* C9, amended: the tool functions share nothing but the generator behind
\* randint and uniform.  Under every interleaving an invocation's outcome
\* is decided by its tool, its argument and its own draw, and a step of an
\* invocation changes its own record and the generator's position only.
C9_OutcomeOwnInputsOnly ==
    /\ [](\A i, j \in CallIds :
            (/\ Finished(i) /\ Finished(j)
             /\ calls[i].tool = calls[j].tool
             /\ calls[i].arg = calls[j].arg
             /\ calls[i].draw = calls[j].draw)
               => calls[i].outcome = calls[j].outcome)
    /\ [][\A i \in CallIds :
            (Running(i) /\ calls'[i].st # calls[i].st) =>
               /\ \A j \in CallIds \ { i } : calls'[j] = calls[j]
               /\ rngPos' \in { rngPos, rngPos + 1 }
               /\ UNCHANGED driverVars]_vars

\* two invocations of get_weather with the same argument and the same draw
\* have both finished, the second after the first
C9_Witness ==
    /\ calls[1].tool = "get_weather" /\ calls[1].st = "raised"
    /\ calls[2].tool = "get_weather" /\ calls[2].st = "raised"
    /\ calls[1].arg = calls[2].arg
    /\ calls[1].draw = calls[2].draw
    /\ rngPos = 4

\* C10: the header is written only after run has returned and the text of
\* the last message's first content block has been extracted; a run that
\* fails has written nothing to standard output.
C10_PrintAfterExtraction ==
    /\ stdout # "" =>
          /\ runOutcome = "returned"
          /\ WellFormed(response)
          /\ text_content = response[Len(response)][1]
          /\ pc \in { "line127", "returned", "exited" }
    /\ (pc = "raising" \/ exc # "none" \/ (pc = "exited" /\ exitCode # 0)) => stdout = ""

\* the process has failed on a response whose last message has no content
C10_Witness ==
    /\ pc = "exited"
    /\ exitCode = 1
    /\ exc = "IndexError"
    /\ Len(response) > 0

====
